---- MODULE Spec2Model ----
(***************************************************************************)
(* Workflow orchestration core of ev-market-analysis: the shared state     *)
(* (state_manager.py), the two-chain fan-out and its merges                *)
(* (graph_builder.py) and the supervisor's stage machine                   *)
(* (agents/supervisor_agent.py).                                           *)
(*                                                                         *)
(* A Python state is a dict whose container values (lists, the             *)
(* agent_errors dict) are references to objects on the heap; dict(state)   *)
(* and state.copy() copy the references, not the objects.  The heap is     *)
(* modelled explicitly so that sharing between copies is what the code     *)
(* makes it.                                                               *)
(*   mem.d : name of a dict  -> the dict (field -> value or address)       *)
(*   mem.l : address -> list object of completed_agents / errors /         *)
(*           warnings / logs, kept as a bag: no code reads positions of    *)
(*           these lists and list(set(..)) leaves their order unspecified  *)
(*   mem.m : address -> messages list object (a sequence)                  *)
(*   mem.e : address -> agent_errors dict object (task id -> message)      *)
(***************************************************************************)
EXTENDS Integers, Sequences, FiniteSets, Bags, TLC

VARIABLES mem, mem0, pc, outcome, received, disk, sup, state_history

vars == <<mem, mem0, pc, outcome, received, disk, sup, state_history>>

\* ------------------------------------------------------------------ bounds

\* longest chain of StateManager operations applied in SpecOps
MaxOps == 1

\* ------------------------------------------------------------------ names

Chain1Tasks == {"market_research", "consumer_analysis"}

Chain2Tasks == {"company_analysis", "tech_analysis", "stock_analysis"}

StageTasks == {"chart_generation", "report_generation"}

Tasks == Chain1Tasks \cup Chain2Tasks \cup StageTasks

\* the result slots of AgentState (Optional[...] fields)
SlotFields ==
    {"market_trends", "government_policies", "market_data", "consumer_patterns",
     "company_analysis", "company_tech_data", "tech_trends", "stock_analysis",
     "charts", "chart_files", "dashboard", "final_report", "report_paths"}

ListFields == {"completed_agents", "errors", "warnings", "logs"}

\* Python truthiness of a slot value: None, a missing key and {} are falsy
Truthy(v) == v \notin {"None", "absent", "empty"}

\* state.get(f) is None
IsNone(v) == v \in {"None", "absent"}

\* ------------------------------------------------------------------ heap

EmptyMem == [d |-> << >>, l |-> << >>, m |-> << >>, e |-> << >>]

NoErrors == [t \in {} |-> "exc"]

\* the list object a list field of dict s refers to
ListOf(M, s, f) == M.l[M.d[s][f]]

MessagesOf(M, s) == M.m[M.d[s].messages]

AgentErrorsOf(M, s) == M.e[M.d[s].agent_errors]

\* state[f].append(x): mutates the list object in place
ListAppend(M, s, f, x) ==
    [M EXCEPT !.l[M.d[s][f]] = @ (+) SetToBag({x})]

\* state[f] = <a new list object holding b>
ListAssignNew(M, s, f, b) ==
    [M EXCEPT !.l = Append(@, b), !.d[s][f] = Len(M.l) + 1]

\* state[f] = v for a plain (non-container) value
SetField(M, s, f, v) == [M EXCEPT !.d[s][f] = v]

\* dict(state) / state.copy(): a new dict holding the same references
ShallowCopy(M, from, to) ==
    [M EXCEPT !.d = [n \in DOMAIN M.d \cup {to} |->
                        IF n = to THEN M.d[from] ELSE M.d[n]]]

\* a dict with every container replaced by its contents
View(M, s) ==
    [M.d[s] EXCEPT !.messages = M.m[@],
                   !.agent_errors = M.e[@],
                   !.completed_agents = M.l[@],
                   !.errors = M.l[@],
                   !.warnings = M.l[@],
                   !.logs = M.l[@]]

Elems(M, s, f) == BagToSet(ListOf(M, s, f))

Populated(M, s) == {f \in SlotFields : ~IsNone(M.d[s][f])}

\* ------------------------------------------------------------------ messages

\* {'role': 'user', 'content': c}, as run() appends it
UserDict(c) == [cls |-> "dict", type |-> "absent", role |-> "user", content |-> c]

HumanMessage(c) == [cls |-> "HumanMessage", type |-> "human", role |-> "absent", content |-> c]

AIMessage(c) == [cls |-> "AIMessage", type |-> "ai", role |-> "absent", content |-> c]

SystemMessage(c) == [cls |-> "SystemMessage", type |-> "system", role |-> "absent", content |-> c]

\* a BaseMessage of another class
ToolMessage(c) == [cls |-> "ToolMessage", type |-> "tool", role |-> "absent", content |-> c]

\* ------------------------------------------------------------------ StateManager

\* StateManager.create_initial_state, stored as dict s; msgs is [initial_message]
\* or [].  The six containers are fresh objects.
create_initial_state(M, s, msgs) ==
    LET nl == Len(M.l)
        rec == [messages |-> Len(M.m) + 1,
                workflow_metadata |-> "user",
                workflow_id |-> "wf_1",
                current_iteration |-> 0,
                workflow_stage |-> "initialization",
                workflow_complete |-> FALSE,
                next_agents |-> << >>,
                pending_agents |-> << >>,
                completed_agents |-> nl + 1,
                agent_errors |-> Len(M.e) + 1,
                market_trends |-> "None",
                government_policies |-> "None",
                market_data |-> "None",
                consumer_patterns |-> "None",
                company_analysis |-> "None",
                company_tech_data |-> "None",
                tech_trends |-> "None",
                stock_analysis |-> "None",
                charts |-> "None",
                charts_generated |-> FALSE,
                chart_files |-> "absent",
                dashboard |-> "None",
                final_report |-> "None",
                report_generated |-> FALSE,
                report_paths |-> "None",
                errors |-> nl + 2,
                warnings |-> nl + 3,
                logs |-> nl + 4,
                \* keys the schema does not declare, absent until some code adds them
                analysis_results |-> "absent",
                tech_analysis_error |-> "absent",
                stock_analysis_error |-> "absent",
                chart_generation_error |-> "absent",
                report_generation_error |-> "absent",
                required_agents |-> "absent",
                completed_at |-> "absent",
                error |-> "absent"]
    IN [d |-> [n \in DOMAIN M.d \cup {s} |-> IF n = s THEN rec ELSE M.d[n]],
        l |-> M.l \o <<EmptyBag, EmptyBag, EmptyBag, SetToBag({"initialized"})>>,
        m |-> Append(M.m, msgs),
        e |-> Append(M.e, NoErrors)]

\* set(a) | set(b) turned back into a list: every element once
UnionList(a, b) == SetToBag(BagToSet(a) \cup BagToSet(b))

\* a variant of the list rule that forgets state2's elements: list(set(a))
merge_states_list_base_only(a, b) == SetToBag(BagToSet(a))

\* list(set(merged.get(field, []) + state2[field])) of StateManager.merge_states
merge_states_list(a, b) == SetToBag(BagToSet(a (+) b))

\* dict.update on agent_errors: the incoming entry wins on a key collision
MapUpdate(a, b) ==
    [k \in DOMAIN a \cup DOMAIN b |-> IF k \in DOMAIN b THEN b[k] ELSE a[k]]

Max(a, b) == IF a >= b THEN a ELSE b

\* data_fields of StateManager.merge_states
MergeDataFields ==
    {"market_trends", "government_policies", "market_data", "consumer_patterns",
     "company_analysis", "company_tech_data", "tech_trends", "stock_analysis",
     "charts", "dashboard", "final_report"}

FlagFields == {"charts_generated", "report_generated", "workflow_complete"}

\* a variant of the slot rule in which state2's value wins whenever it is set
merge_states_fields_incoming_wins(d1, d2) ==
    [f \in DOMAIN d1 |->
        CASE f \in MergeDataFields ->
                 IF ~IsNone(d2[f]) THEN d2[f] ELSE d1[f]
          [] f \in FlagFields -> d1[f] \/ d2[f]
          [] f = "current_iteration" -> Max(d1[f], d2[f])
          [] OTHER -> d1[f]]

\* the merged dict of StateManager.merge_states before its containers are set:
\* merged = state1.copy(), then the data fields, the flags and the iteration
merge_states_fields(d1, d2) ==
    [f \in DOMAIN d1 |->
        CASE f \in MergeDataFields ->
                 IF IsNone(d1[f]) /\ ~IsNone(d2[f]) THEN d2[f] ELSE d1[f]
          [] f \in FlagFields -> d1[f] \/ d2[f]
          [] f = "current_iteration" -> Max(d1[f], d2[f])
          [] OTHER -> d1[f]]

\* StateManager.merge_states(state1, state2), the returned dict stored as r.
\* The four list fields become new list objects; merged['agent_errors'] is the
\* object state1 refers to and is updated in place; messages is never touched.
merge_states(M, s1, s2, r) ==
    LET d1 == M.d[s1]
        d2 == M.d[s2]
        nl == Len(M.l)
        rec == [merge_states_fields(d1, d2) EXCEPT
                   !.completed_agents = nl + 1,
                   !.errors = nl + 2,
                   !.warnings = nl + 3,
                   !.logs = nl + 4]
    IN [d |-> [n \in DOMAIN M.d \cup {r} |-> IF n = r THEN rec ELSE M.d[n]],
        l |-> M.l \o <<merge_states_list(M.l[d1.completed_agents], M.l[d2.completed_agents]),
                       merge_states_list(M.l[d1.errors], M.l[d2.errors]),
                       merge_states_list(M.l[d1.warnings], M.l[d2.warnings]),
                       merge_states_list(M.l[d1.logs], M.l[d2.logs])>>,
        m |-> M.m,
        e |-> [M.e EXCEPT ![d1.agent_errors] = MapUpdate(@, M.e[d2.agent_errors])]]

\* the dependencies table of StateManager.check_dependencies
Dependencies(agent_name) ==
    CASE agent_name = "consumer_analysis" -> <<"market_trends", "government_policies">>
      [] agent_name = "tech_analysis" -> <<"company_tech_data">>
      [] agent_name = "chart_generation" ->
             <<"market_data", "consumer_patterns", "company_analysis",
               "tech_trends", "stock_analysis">>
      [] agent_name = "report_generation" -> <<"charts_generated">>
      [] OTHER -> << >>

\* a variant of the dependency test that asks every field to be truthy
DepMissing_falsy(d, dep) ==
    IF dep = "charts_generated" THEN ~d[dep] ELSE ~Truthy(d[dep])

\* a variant of check_dependencies that reports only the first missing field
check_dependencies_first_only(d, agent_name) ==
    LET Missing(dep) == IF dep = "charts_generated" THEN ~d[dep] ELSE IsNone(d[dep])
        missing_deps == SelectSeq(Dependencies(agent_name), Missing)
    IN [ready |-> Len(missing_deps) = 0,
        missing |-> IF missing_deps = << >> THEN << >> ELSE <<Head(missing_deps)>>]

\* is dependency dep missing from dict d: a *_generated flag must be truthy,
\* any other field must not be None
DepMissing(d, dep) ==
    IF dep = "charts_generated" THEN ~d[dep] ELSE IsNone(d[dep])

\* StateManager.check_dependencies(state, agent_name) on the dict d
check_dependencies(d, agent_name) ==
    LET Missing(dep) == DepMissing(d, dep)
        missing_deps == SelectSeq(Dependencies(agent_name), Missing)
    IN [ready |-> Len(missing_deps) = 0, missing |-> missing_deps]

\* StateManager.max_history
max_history == 100

\* StateManager._add_to_history: a shallow copy of the state is appended and
\* the oldest entry dropped once the history is longer than max_history
_add_to_history(H, d) ==
    LET H1 == Append(H, d)
    IN IF Len(H1) > max_history THEN Tail(H1) ELSE H1

\* a variant of update_state that assigns the given messages instead of
\* extending the list
update_state_replace_messages(M, s, updates, r) ==
    LET d == M.d[s]
        K == DOMAIN updates
        Extended == {"errors", "warnings", "logs"}
        \* keys whose value is assigned: present keys that are neither
        \* extended nor messages, and new keys
        rec0 == [f \in DOMAIN d \cup K |->
                    IF f \in K /\ f \notin Extended \cup {"messages", "completed_agents"}
                    THEN updates[f] ELSE d[f]]
        rec == IF "completed_agents" \in K
               THEN [rec0 EXCEPT !.completed_agents = Len(M.l) + 1] ELSE rec0
        L0 == IF "completed_agents" \in K
              THEN Append(M.l, updates["completed_agents"]) ELSE M.l
        Added == Cardinality(K \ DOMAIN d)
        NewKeyWarnings == [w \in {<<"new field", k>> : k \in K \ DOMAIN d} |-> 1]
        L1 == [a \in DOMAIN L0 |->
                  LET ext == {f \in Extended \cap K : d[f] = a}
                      x0 == IF ext = {} THEN L0[a]
                            ELSE L0[a] (+) updates[CHOOSE f \in ext : TRUE]
                  IN IF a = d.warnings /\ Added > 0 THEN x0 (+) NewKeyWarnings ELSE x0]
    IN [d |-> [n \in DOMAIN M.d \cup {r} |-> IF n = r THEN rec ELSE M.d[n]],
        l |-> L1,
        m |-> IF "messages" \in K
              THEN [M.m EXCEPT ![d.messages] = updates["messages"]] ELSE M.m,
        e |-> M.e]

\* StateManager.update_state(state, updates), the returned dict stored as r.
\* updates is a function from keys to values (a list value is given by its
\* contents).  new_state = state.copy() shares every container with state:
\* messages / errors / warnings / logs are extended in place, the three agent
\* lists are rebound to the list given, any other key is overwritten, and a
\* key the state does not have is added with a warning.
update_state(M, s, updates, r) ==
    LET d == M.d[s]
        K == DOMAIN updates
        Extended == {"errors", "warnings", "logs"}
        \* keys whose value is assigned: present keys that are neither
        \* extended nor messages, and new keys
        rec0 == [f \in DOMAIN d \cup K |->
                    IF f \in K /\ f \notin Extended \cup {"messages", "completed_agents"}
                    THEN updates[f] ELSE d[f]]
        rec == IF "completed_agents" \in K
               THEN [rec0 EXCEPT !.completed_agents = Len(M.l) + 1] ELSE rec0
        L0 == IF "completed_agents" \in K
              THEN Append(M.l, updates["completed_agents"]) ELSE M.l
        Added == Cardinality(K \ DOMAIN d)
        NewKeyWarnings == [w \in {<<"new field", k>> : k \in K \ DOMAIN d} |-> 1]
        L1 == [a \in DOMAIN L0 |->
                  LET ext == {f \in Extended \cap K : d[f] = a}
                      x0 == IF ext = {} THEN L0[a]
                            ELSE L0[a] (+) updates[CHOOSE f \in ext : TRUE]
                  IN IF a = d.warnings /\ Added > 0 THEN x0 (+) NewKeyWarnings ELSE x0]
    IN [d |-> [n \in DOMAIN M.d \cup {r} |-> IF n = r THEN rec ELSE M.d[n]],
        l |-> L1,
        m |-> IF "messages" \in K
              THEN [M.m EXCEPT ![d.messages] = @ \o updates["messages"]] ELSE M.m,
        e |-> M.e]

\* ------------------------------------------------------------------ graph_builder

\* data_fields of EVMarketAnalysisGraph._merge_states
GraphDataFields ==
    {"market_trends", "government_policies", "market_data", "consumer_patterns",
     "company_analysis", "company_tech_data", "tech_trends", "stock_analysis"}

\* a variant of the list rule that assigns the incoming list instead of the union
merge_list_field_replace(M, b, n, f) ==
    IF ListOf(M, n, f) # EmptyBag
    THEN ListAssignNew(M, b, f, SetToBag(BagToSet(ListOf(M, n, f))))
    ELSE M

\* one list field of _merge_states: only when the incoming list is non-empty,
\* base_state[field] becomes a new list object holding the union
merge_list_field(M, b, n, f) ==
    IF ListOf(M, n, f) # EmptyBag
    THEN ListAssignNew(M, b, f, UnionList(ListOf(M, b, f), ListOf(M, n, f)))
    ELSE M

\* EVMarketAnalysisGraph._merge_states(base_state, new_state): mutates and
\* returns base_state (dict b).
_merge_states(M, b, n) ==
    LET dn == M.d[n]
        \* analysis_results
        M1 == IF M.d[b].analysis_results = "absent"
              THEN SetField(M, b, "analysis_results", "empty") ELSE M
        M2 == IF Truthy(dn.analysis_results)
              THEN SetField(M1, b, "analysis_results", dn.analysis_results) ELSE M1
        \* data fields: the incoming value is taken whenever it is not None
        M3 == [M2 EXCEPT !.d[b] =
                  [f \in DOMAIN @ |->
                      IF f \in GraphDataFields /\ ~IsNone(dn[f]) THEN dn[f] ELSE @[f]]]
        \* list fields, in the order of list_fields
        M4 == merge_list_field(M3, b, n, "completed_agents")
        M5 == merge_list_field(M4, b, n, "errors")
        M6 == merge_list_field(M5, b, n, "warnings")
        M7 == merge_list_field(M6, b, n, "logs")
    IN \* messages: extend in place (a no-op when the incoming list is empty)
       [M7 EXCEPT !.m[M7.d[b].messages] = @ \o MessagesOf(M7, n)]

\* ------------------------------------------------------------------ agents

\* How a call of agent.process(state) can end:
\*   ok    - the try body ran to the end
\*   fail  - the try body raised before the state was written; the agent's own
\*           except clause handled it and the state is returned
\*   late  - the try body raised in save_output, after the slots were written
\*   raise - an exception left process() (raised outside the try body or by
\*           the except clause itself)
Outcomes(t) ==
    IF t \in {"market_research", "consumer_analysis", "company_analysis", "stock_analysis"}
    THEN {"ok", "fail", "late", "raise"}
    ELSE {"ok", "fail", "raise"}

\* a variant of Writes in which tech_analysis also stores into stock_analysis
Writes_tech_writes_stock(t) ==
    CASE t = "market_research" -> {"market_data", "market_trends", "government_policies"}
      [] t = "consumer_analysis" -> {"consumer_patterns"}
      [] t = "company_analysis" -> {"company_analysis", "company_tech_data"}
      [] t = "tech_analysis" -> {"tech_trends", "stock_analysis"}
      [] t = "stock_analysis" -> {"stock_analysis"}
      [] t = "chart_generation" -> {"charts", "chart_files", "dashboard"}
      [] t = "report_generation" -> {"final_report", "report_paths"}

\* the slots an agent writes when its try body reaches the state update
Writes(t) ==
    CASE t = "market_research" -> {"market_data", "market_trends", "government_policies"}
      [] t = "consumer_analysis" -> {"consumer_patterns"}
      [] t = "company_analysis" -> {"company_analysis", "company_tech_data"}
      [] t = "tech_analysis" -> {"tech_trends"}
      [] t = "stock_analysis" -> {"stock_analysis"}
      [] t = "chart_generation" -> {"charts", "chart_files", "dashboard"}
      [] t = "report_generation" -> {"final_report", "report_paths"}

ErrMsg(t) == <<t, "exc">>

\* a variant of WriteSlots that stores nothing
WriteSlots_nothing(M, s, t) == M

WriteSlots(M, s, t) ==
    [M EXCEPT !.d[s] =
        [f \in DOMAIN @ |->
            CASE f \in Writes(t) -> "v"
              [] f = "charts_generated" /\ t = "chart_generation" -> TRUE
              [] f = "report_generated" /\ t = "report_generation" -> TRUE
              [] OTHER -> @[f]]]

\* the except clause of each agent's process()
HandleError(M, s, t) ==
    CASE t \in {"market_research", "consumer_analysis", "company_analysis"} ->
             ListAppend(M, s, "errors", ErrMsg(t))
      [] t = "tech_analysis" -> SetField(M, s, "tech_analysis_error", "exc")
      [] t = "stock_analysis" -> SetField(M, s, "stock_analysis_error", "exc")
      [] t = "chart_generation" -> SetField(M, s, "chart_generation_error", "exc")
      [] t = "report_generation" -> SetField(M, s, "report_generation_error", "exc")

\* agent.process(state) for an outcome that returns: the dict passed in,
\* mutated in place, is the dict returned
process(M, s, t, o) ==
    CASE o = "ok" -> WriteSlots(M, s, t)
      [] o = "fail" -> HandleError(M, s, t)
      [] o = "late" -> HandleError(WriteSlots(M, s, t), s, t)

\* ------------------------------------------------------------------ pipeline run

\* received[t] is the dict task t was handed when it was started (the state
\* snapshot it runs against); tasks not started yet are not in its domain
Receives(R, t, M, s) ==
    [x \in DOMAIN R \cup {t} |-> IF x = t THEN M.d[s] ELSE R[x]]

Started(t) == t \in DOMAIN received

\* StateManager._make_serializable / _serialize_message: a message that is
\* already a dict is written as it is, an object as {type, content, role, name}
_serialize_message(msg) ==
    IF msg.cls = "dict" THEN msg
    ELSE [cls |-> "dict", type |-> msg.cls, role |-> "unknown", content |-> msg.content]

_make_serializable(M, s) ==
    [View(M, s) EXCEPT !.messages = [i \in DOMAIN @ |-> _serialize_message(@[i])]]

\* open(checkpoint_file, 'w') + json.dump: the file of that name is created or
\* overwritten, every other file is kept
WriteFile(D, name, content) ==
    [n \in DOMAIN D \cup {name} |-> IF n = name THEN content ELSE D[n]]

\* StateManager.save_checkpoint(state, name): writes the file, then appends a
\* line to state['logs']
save_checkpoint(M, s) == ListAppend(M, s, "logs", "checkpoint saved")

\* the message loop of StateManager._deserialize_state: msg_dict['type'] and
\* msg_dict['content'] are read with [], so a dict without 'type' raises
\* KeyError; any type other than the three known ones gives a HumanMessage
DeserializeMessage(msg_dict) ==
    CASE msg_dict.type = "HumanMessage" -> HumanMessage(msg_dict.content)
      [] msg_dict.type = "AIMessage" -> AIMessage(msg_dict.content)
      [] msg_dict.type = "SystemMessage" -> SystemMessage(msg_dict.content)
      [] OTHER -> HumanMessage(msg_dict.content)

\* StateManager._deserialize_state(serialized): state = serialized.copy() with
\* the messages rebuilt
_deserialize_state(serialized) ==
    IF \E i \in DOMAIN serialized.messages : serialized.messages[i].type = "absent"
    THEN [raised |-> "KeyError", state |-> serialized]
    ELSE [raised |-> "no",
          state |-> [serialized EXCEPT
                        !.messages = [i \in DOMAIN @ |-> DeserializeMessage(@[i])]]]

\* a dict read from a file becomes dict r, every container a new object
Materialize(M, r, v) ==
    LET nl == Len(M.l)
        rec == [v EXCEPT !.messages = Len(M.m) + 1,
                         !.agent_errors = Len(M.e) + 1,
                         !.completed_agents = nl + 1,
                         !.errors = nl + 2,
                         !.warnings = nl + 3,
                         !.logs = nl + 4]
    IN [d |-> [n \in DOMAIN M.d \cup {r} |-> IF n = r THEN rec ELSE M.d[n]],
        l |-> M.l \o <<v.completed_agents, v.errors, v.warnings, v.logs>>,
        m |-> Append(M.m, v.messages),
        e |-> Append(M.e, v.agent_errors)]

\* StateManager.load_checkpoint(checkpoint_path), the returned state stored as
\* dict r: FileNotFoundError when the file does not exist, the exception of
\* _deserialize_state when it raises, otherwise the restored state with one
\* more line in its logs
load_checkpoint(M, D, name, r) ==
    IF name \notin DOMAIN D
    THEN [raised |-> "FileNotFoundError", mem |-> M]
    ELSE LET res == _deserialize_state(D[name])
         IN IF res.raised # "no"
            THEN [raised |-> res.raised, mem |-> M]
            ELSE [raised |-> "no",
                  mem |-> ListAppend(Materialize(M, r, res.state), r, "logs",
                                     "state restored")]

InitPipeline ==
    /\ mem = EmptyMem
    /\ mem0 = EmptyMem
    /\ pc = [main |-> "new", chain1 |-> "idle", chain2 |-> "idle",
             tech |-> "idle", stock |-> "idle"]
    /\ outcome = [t \in Tasks |-> "none"]
    /\ received = << >>
    /\ disk = << >>
    /\ sup = << >>
    /\ state_history = << >>

\* EVMarketAnalysisGraph.run up to graph.invoke: the initial state, with the
\* initial message appended as a dict when one is given
Run(withMessage) ==
    /\ pc.main = "new"
    /\ mem' = create_initial_state(mem, "state",
                  IF withMessage THEN <<UserDict("start")>> ELSE << >>)
    /\ pc' = [pc EXCEPT !.main = "parallel_chains"]
    /\ UNCHANGED <<mem0, outcome, received, disk, sup, state_history>>

\* _execute_parallel_chains up to the gather: state_1 = dict(state),
\* state_2 = dict(state), and both chains run to their first suspension
\* (inside the first agent of each)
_execute_parallel_chains ==
    /\ pc.main = "parallel_chains"
    /\ LET M1 == ShallowCopy(mem, "state", "state_1")
           M2 == ShallowCopy(M1, "state", "state_2")
       IN /\ mem' = M2
          /\ received' = Receives(Receives(received, "market_research", M2, "state_1"),
                                   "company_analysis", M2, "state_2")
    /\ pc' = [pc EXCEPT !.main = "gather", !.chain1 = "market_research",
                        !.chain2 = "company_analysis"]
    /\ UNCHANGED <<mem0, outcome, disk, sup, state_history>>

\* a variant of the except clause that records nothing
ChainExcept_silent(M, s, chain) == M

\* the chain's own except clause: state['errors'].append(error_msg); return state
ChainExcept(M, s, chain) == ListAppend(M, s, "errors", <<chain, "exc">>)

\* a chain's step after agent t returned: state['completed_agents'].append(t)
MarkCompleted(M, s, t) == ListAppend(M, s, "completed_agents", t)

\* _execute_chain_1, first step: market_research.process returns or raises;
\* on return the chain marks it completed and starts consumer_analysis
Chain1MarketResearch(o) ==
    /\ pc.chain1 = "market_research"
    /\ outcome' = [outcome EXCEPT !["market_research"] = o]
    /\ IF o = "raise"
       THEN /\ mem' = ChainExcept(mem, "state_1", "Chain 1")
            /\ pc' = [pc EXCEPT !.chain1 = "done"]
            /\ UNCHANGED received
       ELSE LET M1 == MarkCompleted(process(mem, "state_1", "market_research", o),
                                    "state_1", "market_research")
            IN /\ mem' = M1
               /\ pc' = [pc EXCEPT !.chain1 = "consumer_analysis"]
               /\ received' = Receives(received, "consumer_analysis", M1, "state_1")
    /\ UNCHANGED <<mem0, disk, sup, state_history>>

\* _execute_chain_1, second step: consumer_analysis.process returns or raises
Chain1ConsumerAnalysis(o) ==
    /\ pc.chain1 = "consumer_analysis"
    /\ outcome' = [outcome EXCEPT !["consumer_analysis"] = o]
    /\ mem' = IF o = "raise"
              THEN ChainExcept(mem, "state_1", "Chain 1")
              ELSE MarkCompleted(process(mem, "state_1", "consumer_analysis", o),
                                 "state_1", "consumer_analysis")
    /\ pc' = [pc EXCEPT !.chain1 = "done"]
    /\ UNCHANGED <<mem0, received, disk, sup, state_history>>

\* _execute_chain_2, first step: company_analysis.process returns or raises;
\* on return the chain marks it completed, copies its state twice and starts
\* the two siblings
Chain2CompanyAnalysis(o) ==
    /\ pc.chain2 = "company_analysis"
    /\ outcome' = [outcome EXCEPT !["company_analysis"] = o]
    /\ IF o = "raise"
       THEN /\ mem' = ChainExcept(mem, "state_2", "Chain 2")
            /\ pc' = [pc EXCEPT !.chain2 = "done"]
            /\ UNCHANGED received
       ELSE LET M1 == MarkCompleted(process(mem, "state_2", "company_analysis", o),
                                    "state_2", "company_analysis")
                M2 == ShallowCopy(M1, "state_2", "state_tech")
                M3 == ShallowCopy(M2, "state_2", "state_stock")
            IN /\ mem' = M3
               /\ pc' = [pc EXCEPT !.chain2 = "gather", !.tech = "running",
                                   !.stock = "running"]
               /\ received' = Receives(Receives(received, "tech_analysis", M3, "state_tech"),
                                        "stock_analysis", M3, "state_stock")
    /\ UNCHANGED <<mem0, disk, sup, state_history>>

\* _run_tech_analysis / _run_stock_analysis: on return the agent is marked
\* completed; on an exception the error is appended and the exception re-raised
RunSibling(M, s, t, o) ==
    IF o = "raise"
    THEN ListAppend(M, s, "errors", ErrMsg(t))
    ELSE MarkCompleted(process(M, s, t, o), s, t)

_run_tech_analysis(o) ==
    /\ pc.tech = "running"
    /\ outcome' = [outcome EXCEPT !["tech_analysis"] = o]
    /\ mem' = RunSibling(mem, "state_tech", "tech_analysis", o)
    /\ pc' = [pc EXCEPT !.tech = IF o = "raise" THEN "raised" ELSE "returned"]
    /\ UNCHANGED <<mem0, received, disk, sup, state_history>>

_run_stock_analysis(o) ==
    /\ pc.stock = "running"
    /\ outcome' = [outcome EXCEPT !["stock_analysis"] = o]
    /\ mem' = RunSibling(mem, "state_stock", "stock_analysis", o)
    /\ pc' = [pc EXCEPT !.stock = IF o = "raise" THEN "raised" ELSE "returned"]
    /\ UNCHANGED <<mem0, received, disk, sup, state_history>>

\* one turn of a join loop: a result that is an exception is recorded in the
\* base state's errors, any other result is merged into the base state
Fold(M, b, n, result, label) ==
    IF result = "raised"
    THEN ListAppend(M, b, "errors", <<label, "failed">>)
    ELSE _merge_states(M, b, n)

\* _execute_chain_2 after the gather: the two results are folded into the
\* chain's state, tech_analysis first
Chain2Join ==
    /\ pc.chain2 = "gather"
    /\ pc.tech \in {"returned", "raised"}
    /\ pc.stock \in {"returned", "raised"}
    /\ mem' = Fold(Fold(mem, "state_2", "state_tech", pc.tech, "tech_analysis"),
                   "state_2", "state_stock", pc.stock, "stock_analysis")
    /\ pc' = [pc EXCEPT !.chain2 = "done"]
    /\ UNCHANGED <<mem0, outcome, received, disk, sup, state_history>>

\* _execute_parallel_chains after the gather: merged_state = state, then the
\* chains' results are folded in, chain 1 first.  Both chains catch every
\* Exception themselves, so both results are states.
JoinChains ==
    /\ pc.main = "gather"
    /\ pc.chain1 = "done"
    /\ pc.chain2 = "done"
    /\ mem' = Fold(Fold(mem, "state", "state_1", "returned", "Chain 1"),
                   "state", "state_2", "returned", "Chain 2")
    /\ pc' = [pc EXCEPT !.main = "chart_generation"]
    /\ received' = Receives(received, "chart_generation", mem', "state")
    /\ UNCHANGED <<mem0, outcome, disk, sup, state_history>>

\* the wrapper of _create_agent_wrapper_sync around agent t
AgentWrapperSync(M, s, t, o) ==
    IF o = "raise"
    THEN LET M1 == ListAppend(M, s, "errors", ErrMsg(t))
         IN [M1 EXCEPT !.e[M1.d[s].agent_errors] = MapUpdate(@, [k \in {t} |-> "exc"])]
    ELSE process(M, s, t, o)

\* node chart_generation
ChartGeneration(o) ==
    /\ pc.main = "chart_generation"
    /\ outcome' = [outcome EXCEPT !["chart_generation"] = o]
    /\ mem' = AgentWrapperSync(mem, "state", "chart_generation", o)
    /\ pc' = [pc EXCEPT !.main = "report_generation"]
    /\ received' = Receives(received, "report_generation", mem', "state")
    /\ UNCHANGED <<mem0, disk, sup, state_history>>

\* node report_generation
ReportGeneration(o) ==
    /\ pc.main = "report_generation"
    /\ outcome' = [outcome EXCEPT !["report_generation"] = o]
    /\ mem' = AgentWrapperSync(mem, "state", "report_generation", o)
    /\ pc' = [pc EXCEPT !.main = "save"]
    /\ UNCHANGED <<mem0, received, disk, sup, state_history>>

\* run() after graph.invoke: save_checkpoint(final_state, "final_state")
SaveFinalState ==
    /\ pc.main = "save"
    /\ disk' = WriteFile(disk, "final_state", _make_serializable(mem, "state"))
    /\ mem' = save_checkpoint(mem, "state")
    /\ pc' = [pc EXCEPT !.main = "done"]
    /\ UNCHANGED <<mem0, outcome, received, sup, state_history>>

Next ==
    \/ \E b \in BOOLEAN : Run(b)
    \/ _execute_parallel_chains
    \/ \E o \in Outcomes("market_research") : Chain1MarketResearch(o)
    \/ \E o \in Outcomes("consumer_analysis") : Chain1ConsumerAnalysis(o)
    \/ \E o \in Outcomes("company_analysis") : Chain2CompanyAnalysis(o)
    \/ \E o \in Outcomes("tech_analysis") : _run_tech_analysis(o)
    \/ \E o \in Outcomes("stock_analysis") : _run_stock_analysis(o)
    \/ Chain2Join
    \/ JoinChains
    \/ \E o \in Outcomes("chart_generation") : ChartGeneration(o)
    \/ \E o \in Outcomes("report_generation") : ReportGeneration(o)
    \/ SaveFinalState

Spec == InitPipeline /\ [][Next]_vars

\* the fan-out stage run without interleaving, in declaration order: chain 1
\* to its end, then chain 2 (company_analysis, tech_analysis, stock_analysis,
\* its join), then the join of the two chains; o gives each task's outcome
SequentialChain1(M, o) ==
    IF o["market_research"] = "raise"
    THEN ChainExcept(M, "state_1", "Chain 1")
    ELSE LET M1 == MarkCompleted(process(M, "state_1", "market_research",
                                         o["market_research"]),
                                 "state_1", "market_research")
         IN IF o["consumer_analysis"] = "raise"
            THEN ChainExcept(M1, "state_1", "Chain 1")
            ELSE MarkCompleted(process(M1, "state_1", "consumer_analysis",
                                       o["consumer_analysis"]),
                               "state_1", "consumer_analysis")

SequentialChain2(M, o) ==
    IF o["company_analysis"] = "raise"
    THEN ChainExcept(M, "state_2", "Chain 2")
    ELSE LET M1 == MarkCompleted(process(M, "state_2", "company_analysis",
                                         o["company_analysis"]),
                                 "state_2", "company_analysis")
             M2 == ShallowCopy(M1, "state_2", "state_tech")
             M3 == ShallowCopy(M2, "state_2", "state_stock")
             M4 == RunSibling(M3, "state_tech", "tech_analysis", o["tech_analysis"])
             M5 == RunSibling(M4, "state_stock", "stock_analysis", o["stock_analysis"])
             r(t) == IF o[t] = "raise" THEN "raised" ELSE "returned"
         IN Fold(Fold(M5, "state_2", "state_tech", r("tech_analysis"), "tech_analysis"),
                 "state_2", "state_stock", r("stock_analysis"), "stock_analysis")

SequentialFanOut(withMessage, o) ==
    LET M0 == create_initial_state(EmptyMem, "state",
                  IF withMessage THEN <<UserDict("start")>> ELSE << >>)
        M1 == ShallowCopy(M0, "state", "state_1")
        M2 == ShallowCopy(M1, "state", "state_2")
        M3 == SequentialChain2(SequentialChain1(M2, o), o)
    IN Fold(Fold(M3, "state", "state_1", "returned", "Chain 1"),
            "state", "state_2", "returned", "Chain 2")

\* ------------------------------------------------------------------ claims, pipeline

\* the errors entries that name task t or the chain it runs in
ErrorsNaming(t) ==
    {ErrMsg(t), <<t, "failed">>}
      \cup (IF t \in Chain1Tasks THEN {<<"Chain 1", "exc">>} ELSE {})
      \cup (IF t \in Chain2Tasks THEN {<<"Chain 2", "exc">>} ELSE {})

Failed(t) == outcome[t] \in {"fail", "late", "raise"}

\* C1: during a fan-out each branch works on a private copy: until the join
\* runs, what one branch appended to completed_agents or errors is seen neither
\* in the other branch's state nor in the pre-stage state.  This holds at the
\* top-level fan-out (state, state_1, state_2) and at the sibling fan-out
\* inside chain 2 (state_2, state_tech, state_stock).
C1_BranchesIsolated ==
    /\ pc.main = "gather" =>
         /\ Elems(mem, "state", "completed_agents") = {}
         /\ Elems(mem, "state", "errors") = {}
         /\ Elems(mem, "state_1", "completed_agents") \subseteq Chain1Tasks
         /\ Elems(mem, "state_2", "completed_agents") \subseteq Chain2Tasks
         /\ \A t \in Chain2Tasks : Elems(mem, "state_1", "errors") \cap ErrorsNaming(t) = {}
         /\ \A t \in Chain1Tasks : Elems(mem, "state_2", "errors") \cap ErrorsNaming(t) = {}
    /\ pc.chain2 = "gather" =>
         /\ "stock_analysis" \notin Elems(mem, "state_tech", "completed_agents")
         /\ "tech_analysis" \notin Elems(mem, "state_stock", "completed_agents")
         /\ Elems(mem, "state_2", "completed_agents")
               \cap {"tech_analysis", "stock_analysis"} = {}

\* C22: for fixed task outcomes the state the fan-out stage produces is the
\* same for every interleaving of the two chains and of the two siblings: when
\* the join of the chains has run, the state is the one the stage produces
\* when run in declaration order with the same outcomes.
C22_FanOutDeterministic ==
    pc.main = "chart_generation" =>
        LET b == Len(View(mem, "state").messages) > 0
        IN View(mem, "state") = View(SequentialFanOut(b, outcome), "state")

\* the join of the chains has run after tasks of both chains failed
C22_Witness ==
    /\ pc.main = "chart_generation"
    /\ outcome["market_research"] = "fail"
    /\ outcome["stock_analysis"] = "raise"
    /\ {ErrMsg("market_research"), <<"stock_analysis", "failed">>}
          \subseteq Elems(mem, "state", "errors")
    /\ Elems(mem, "state", "completed_agents")
          = {"market_research", "consumer_analysis", "company_analysis", "tech_analysis"}

\* task t is inside its process() call: it was started and has not finished
Running(t) == Started(t) /\ outcome[t] = "none"

\* the result slots whose value differs between before and after a step, in
\* any of the state dicts
SlotsChanged ==
    {f \in SlotFields :
        \E s \in DOMAIN mem.d \cap DOMAIN mem'.d : mem'.d[s][f] # mem.d[s][f]}

\* C23: in the fan-out stage no result slot is written by two tasks that may
\* run concurrently: whenever two tasks are running at the same time the
\* slots they write are disjoint, and the step in which a task finishes
\* changes no result slot that a task still running writes.
C23_ConcurrentWritesDisjoint ==
    /\ [](\A t, u \in Chain1Tasks \cup Chain2Tasks :
             t # u /\ Running(t) /\ Running(u) => Writes(t) \cap Writes(u) = {})
    /\ [][\A t, u \in Chain1Tasks \cup Chain2Tasks :
             t # u /\ Running(t) /\ outcome'[t] # "none" /\ Running(u)
                => SlotsChanged \cap Writes(u) = {}]_vars

\* tech_analysis has written its slot while stock_analysis and a task of
\* chain 1 are still running
C23_Witness ==
    /\ outcome["tech_analysis"] = "ok"
    /\ mem.d["state_tech"].tech_trends = "v"
    /\ Running("stock_analysis")
    /\ Running("consumer_analysis")

\* the label of the chain task t runs in, and the tasks of the other chain
ChainOf(t) == IF t \in Chain1Tasks THEN "Chain 1" ELSE "Chain 2"

OtherChain(t) == IF t \in Chain1Tasks THEN Chain2Tasks ELSE Chain1Tasks

\* the exception of task t ends its chain: it escapes process() in the body of
\* _execute_chain_1 or _execute_chain_2 (tech_analysis and stock_analysis run
\* under their own gather)
ChainRaised(t) ==
    /\ t \in {"market_research", "consumer_analysis", "company_analysis"}
    /\ outcome[t] = "raise"

Finished(t) == outcome[t] \in {"ok", "fail", "late"}

Predecessor(t) ==
    CASE t = "consumer_analysis" -> "market_research"
      [] t \in {"tech_analysis", "stock_analysis"} -> "company_analysis"

\* C25: within a chain a task starts only after the task before it has
\* returned, and the state it receives holds every result slot that task
\* wrote: consumer_analysis sees the slots of market_research, and
\* tech_analysis and stock_analysis start from the same snapshot, which holds
\* the slots of company_analysis.
C25_SequentialVisibility ==
    /\ \A t \in {"consumer_analysis", "tech_analysis", "stock_analysis"} :
          Started(t) =>
             /\ Finished(Predecessor(t))
             /\ outcome[Predecessor(t)] \in {"ok", "late"} =>
                   \A f \in Writes(Predecessor(t)) : received[t][f] = "v"
    /\ Started("tech_analysis") <=> Started("stock_analysis")
    /\ Started("tech_analysis") =>
          received["tech_analysis"] = received["stock_analysis"]

\* the second task of chain 1 and the two siblings of chain 2 were started
\* after their predecessors had written their slots
C25_Witness ==
    /\ Started("consumer_analysis")
    /\ outcome["market_research"] = "ok"
    /\ received["consumer_analysis"].market_data = "v"
    /\ Started("stock_analysis")
    /\ outcome["company_analysis"] = "ok"
    /\ received["stock_analysis"].company_tech_data = "v"

\* C28: in every state of a run a task id is in completed_agents only if the
\* task succeeded: it returned with its result slots written and no error
\* recorded for it.  A task whose process failed internally is never marked
\* completed.
C28_CompletedOnlyIfSucceeded ==
    \A s \in DOMAIN mem.d :
        \A t \in Tasks :
            t \in Elems(mem, s, "completed_agents") =>
                /\ outcome[t] = "ok"
                /\ ErrMsg(t) \notin Elems(mem, s, "errors")
                /\ pc.main \notin {"new", "parallel_chains", "gather"} =>
                      \A f \in Writes(t) : ~IsNone(mem.d["state"][f])

\* C29: the fan-out stage does not duplicate messages: no task appends a
\* message, so after the join of the chains the messages of the merged state
\* are the messages the run started with, each occurring once.
C29_MessagesNotDuplicated ==
    pc.main = "chart_generation" =>
        View(mem, "state").messages \in {<< >>, <<UserDict("start")>>}

\* C6: when a task of a chain raises, the chain records the error and still
\* runs every later task of its list: once a chain has finished, each of its
\* tasks has been started and an error names every task that raised.
C6_ChainContinuesAfterRaise ==
    /\ pc.chain1 = "done" =>
         /\ \A t \in Chain1Tasks : Started(t)
         /\ \A t \in Chain1Tasks :
               outcome[t] = "raise" =>
                   Elems(mem, "state_1", "errors") \cap ErrorsNaming(t) # {}
    /\ pc.chain2 = "done" =>
         /\ \A t \in Chain2Tasks : Started(t)
         /\ \A t \in Chain2Tasks :
               outcome[t] = "raise" =>
                   Elems(mem, "state_2", "errors") \cap ErrorsNaming(t) # {}

\* C7: no failure of a task stops the run, and at the end of the run every
\* failed task has an entry under its id in agent_errors and an entry in
\* errors, and every task of the pipeline was started.
C7_FailuresRecorded ==
    pc.main = "done" =>
        /\ \A t \in Tasks : Started(t)
        /\ \A t \in Tasks :
              Failed(t) =>
                  /\ t \in DOMAIN AgentErrorsOf(mem, "state")
                  /\ Elems(mem, "state", "errors") \cap ErrorsNaming(t) # {}

\* C8: a task is started only if check_dependencies reports it ready in the
\* state it receives.
C8_StartedOnlyWhenReady ==
    \A t \in {"consumer_analysis", "tech_analysis", "chart_generation", "report_generation"} :
        Started(t) => check_dependencies(received[t], t).ready

\* C13: once the chains' results are folded and before a task of the next
\* stage starts, a checkpoint is on disk, so that a run interrupted at any
\* later point leaves a checkpoint to load.
C13_CheckpointAfterFold ==
    pc.main \in {"chart_generation", "report_generation", "save", "done"} =>
        DOMAIN disk # {}

\* ------------------------------------------------------------------ StateManager operations

\* A state as the program builds it: create_initial_state followed by the
\* writes of tasks.  cfg gives the fields that differ from the initial state:
\* one value for the slots market_trends and stock_analysis, one for charts,
\* chart_files and final_report (with charts_generated set accordingly), the
\* lists, and agent_errors with the matching errors entries.
SampleState(M, s, cfg) ==
    LET M1 == create_initial_state(M, s, cfg.messages)
        d == M1.d[s]
    IN [M1 EXCEPT !.d[s].market_trends = cfg.market_trends,
                  !.d[s].stock_analysis = cfg.market_trends,
                  !.d[s].charts = cfg.charts,
                  !.d[s].chart_files = cfg.charts,
                  !.d[s].final_report = cfg.charts,
                  !.d[s].charts_generated = cfg.charts # "None",
                  !.d[s].current_iteration = cfg.iteration,
                  !.l[d.completed_agents] = cfg.completed,
                  !.l[d.errors] = [x \in {ErrMsg(t) : t \in DOMAIN cfg.agent_errors} |-> 1],
                  !.e[d.agent_errors] = cfg.agent_errors]

SlotValues == {"None", "a", "b"}

Sample1 ==
    [market_trends : SlotValues,
     charts : {"None", "a"},
     completed : {EmptyBag, SetToBag({"market_research"})},
     messages : {<< >>, <<HumanMessage("m1")>>},
     iteration : {0},
     agent_errors : {NoErrors, [t \in {"market_research"} |-> "e1"]}]

Sample2 ==
    [market_trends : SlotValues,
     charts : {"None", "b"},
     completed : {EmptyBag, SetToBag({"market_research"}), SetToBag({"company_analysis"})},
     messages : {<< >>, <<HumanMessage("m2")>>},
     iteration : {1},
     agent_errors : {NoErrors, [t \in {"market_research"} |-> "e2"]}]

\* the updates given to update_state
Partials ==
    { [completed_agents |-> EmptyBag],
      [completed_agents |-> SetToBag({"market_research", "tech_analysis"})],
      [messages |-> <<HumanMessage("m3")>>],
      [errors |-> SetToBag({ErrMsg("tech_analysis")}), logs |-> SetToBag({"updated"})],
      [current_iteration |-> 1, workflow_stage |-> "data_collection", market_trends |-> "c"],
      [next_agents |-> <<"consumer_analysis">>, test_data |-> "test_value"] }

ResultName(n) == IF n = 1 THEN "result1" ELSE IF n = 2 THEN "result2" ELSE "result3"

InitOps ==
    /\ \E c1 \in Sample1, c2 \in Sample2 :
          mem = SampleState(SampleState(EmptyMem, "state1", c1), "state2", c2)
    /\ mem0 = EmptyMem
    /\ pc = [op |-> "none", n |-> 0, base |-> "state1", cur |-> "state1", arg |-> << >>]
    /\ outcome = << >>
    /\ received = << >>
    /\ disk = << >>
    /\ sup = << >>
    /\ state_history = << >>

\* merged = state_manager.merge_states(state, state2); state = merged
MergeStates ==
    /\ pc.n < MaxOps
    /\ mem0' = mem
    /\ mem' = merge_states(mem, pc.cur, "state2", ResultName(pc.n + 1))
    /\ pc' = [op |-> "merge_states", n |-> pc.n + 1, base |-> pc.cur,
              cur |-> ResultName(pc.n + 1), arg |-> << >>]
    /\ UNCHANGED <<outcome, received, disk, sup, state_history>>

\* state = self._merge_states(state, state2)
GraphMergeStates ==
    /\ pc.n < MaxOps
    /\ mem0' = mem
    /\ mem' = _merge_states(mem, pc.cur, "state2")
    /\ pc' = [pc EXCEPT !.op = "_merge_states", !.n = @ + 1, !.base = pc.cur, !.arg = << >>]
    /\ UNCHANGED <<outcome, received, disk, sup, state_history>>

\* state = state_manager.update_state(state, updates)
UpdateState(updates) ==
    /\ pc.n < MaxOps
    /\ mem0' = mem
    /\ mem' = update_state(mem, pc.cur, updates, ResultName(pc.n + 1))
    /\ state_history' = _add_to_history(state_history, mem'.d[ResultName(pc.n + 1)])
    /\ pc' = [op |-> "update_state", n |-> pc.n + 1, base |-> pc.cur,
              cur |-> ResultName(pc.n + 1), arg |-> updates]
    /\ UNCHANGED <<outcome, received, disk, sup>>

\* a chain's state['completed_agents'].append(t)
AppendCompleted(t) ==
    /\ pc.n < MaxOps
    /\ mem0' = mem
    /\ mem' = MarkCompleted(mem, pc.cur, t)
    /\ pc' = [pc EXCEPT !.op = "append", !.n = @ + 1, !.base = pc.cur, !.arg = << >>]
    /\ UNCHANGED <<outcome, received, disk, sup, state_history>>

NextOps ==
    \/ MergeStates
    \/ GraphMergeStates
    \/ \E u \in Partials : UpdateState(u)
    \/ \E t \in {"consumer_analysis"} : AppendCompleted(t)

SpecOps == InitOps /\ [][NextOps]_vars

\* ------------------------------------------------------------------ claims, merge and update

\* the operation just applied took dict pc.base of mem0 as its base state and
\* dict state2 as the incoming state, and left its result in dict pc.cur of mem
Base == View(mem0, pc.base)

Incoming == View(mem0, "state2")

Result == View(mem, pc.cur)

\* the result of the same StateManager.merge_states call with the arguments
\* swapped
Swapped == View(merge_states(mem0, "state2", pc.base, "swapped"), "swapped")

\* what the Merger rule table prescribes for base and incoming
Prescribed == View(merge_states(mem0, pc.base, "state2", "prescribed"), "prescribed")

\* C2: the orchestrator's merge (_merge_states, used at both joins) produces
\* what the Merger rule table, StateManager.merge_states, prescribes: the same
\* result slots, the same sets in the four merged lists, the same agent_errors,
\* flags and iteration counter.
C2_GraphMergeFollowsRuleTable ==
    pc.op = "_merge_states" =>
        /\ \A f \in MergeDataFields \cup FlagFields \cup {"current_iteration"} :
              Result[f] = Prescribed[f]
        /\ \A f \in ListFields : BagToSet(Result[f]) = BagToSet(Prescribed[f])
        /\ Result.agent_errors = Prescribed.agent_errors

\* C3: merge_states is first-writer-wins on every result slot: the base value
\* is kept whenever it is not None, the incoming value is taken only when the
\* base value is None; so swapping the arguments changes every slot that both
\* states set to different values.
C3_FirstWriterWins ==
    pc.op = "merge_states" =>
        \A f \in SlotFields :
            /\ ~IsNone(Base[f]) => Result[f] = Base[f]
            /\ Result[f] # Base[f] => (IsNone(Base[f]) /\ Result[f] = Incoming[f])
            /\ (f \in MergeDataFields /\ IsNone(Base[f])) => Result[f] = Incoming[f]
            /\ (~IsNone(Base[f]) /\ ~IsNone(Incoming[f]) /\ Base[f] # Incoming[f])
                  => Result[f] # Swapped[f]

C3_Witness ==
    /\ pc.op = "merge_states"
    /\ Base.market_trends = "a"
    /\ Incoming.market_trends = "b"
    /\ Result.market_trends = "a"
    /\ Swapped.market_trends = "b"
    /\ IsNone(Base.charts)
    /\ Result.charts = "b"

\* C4: the completed_agents of merge_states(A, B), as a set, is the union of
\* A's and B's, and so the same set as that of merge_states(B, A).
C4_CompletedIsUnion ==
    pc.op = "merge_states" =>
        /\ BagToSet(Result.completed_agents)
              = BagToSet(Base.completed_agents) \cup BagToSet(Incoming.completed_agents)
        /\ BagToSet(Result.completed_agents) = BagToSet(Swapped.completed_agents)

C4_Witness ==
    /\ pc.op = "merge_states"
    /\ BagToSet(Base.completed_agents) = {"market_research"}
    /\ BagToSet(Incoming.completed_agents) = {"company_analysis"}
    /\ BagToSet(Result.completed_agents) = {"market_research", "company_analysis"}

\* C5: the messages of a merge are the base's messages followed by the
\* incoming state's messages, nothing dropped and nothing de-duplicated; this
\* is stated of both merges, StateManager.merge_states and _merge_states.
C5_MessagesConcatenated ==
    pc.op \in {"merge_states", "_merge_states"} =>
        Result.messages = Base.messages \o Incoming.messages

\* C9 as claimed: no operation (update, merge, a chain's append) loses an
\* element of completed_agents.
C9_CompletedNeverShrinks ==
    pc.n > 0 =>
        BagToSet(Base.completed_agents) \subseteq BagToSet(Result.completed_agents)

\* C9 as amended: the merges and the chains' appends never lose an element of
\* completed_agents, and neither does update_state when its updates do not
\* carry completed_agents; update_state with completed_agents among the
\* updates replaces the list outright.
C9_CompletedKeptExceptReplace ==
    /\ (pc.n > 0 /\ ~(pc.op = "update_state" /\ "completed_agents" \in DOMAIN pc.arg)) =>
          BagToSet(Base.completed_agents) \subseteq BagToSet(Result.completed_agents)
    /\ (pc.op = "update_state" /\ "completed_agents" \in DOMAIN pc.arg) =>
          Result.completed_agents = pc.arg.completed_agents

C9_Witness ==
    /\ pc.op = "_merge_states"
    /\ BagToSet(Base.completed_agents) = {"market_research"}
    /\ BagToSet(Incoming.completed_agents) = {"company_analysis"}
    /\ BagToSet(Result.completed_agents) = {"market_research", "company_analysis"}

\* a key of the updates update_state was given
Given(f) == f \in DOMAIN pc.arg

\* a list field of the returned state is the old list followed by the values
\* given for it, if any
Appended(f) ==
    IF f = "messages"
    THEN Result[f] = Base[f] \o (IF Given(f) THEN pc.arg[f] ELSE << >>)
    ELSE Result[f] = Base[f] (+) (IF Given(f) THEN pc.arg[f] ELSE EmptyBag)

\* C21 as claimed: in the state update_state returns, messages, errors,
\* warnings and logs given in the updates are the old value followed by the
\* given values, every other given field holds the given value (the three
\* agent lists included, which are replaced), and every field not given is
\* unchanged.
C21_UpdateFieldwise ==
    pc.op = "update_state" =>
        /\ DOMAIN Result = DOMAIN Base \cup DOMAIN pc.arg
        /\ \A f \in {"messages", "errors", "warnings", "logs"} : Appended(f)
        /\ \A f \in DOMAIN Result \ {"messages", "errors", "warnings", "logs"} :
              Result[f] = IF Given(f) THEN pc.arg[f] ELSE Base[f]

\* C21 as amended: as above, except that warnings also receives one entry for
\* every given key that the state does not have.
C21_UpdateFieldwiseWithWarning ==
    pc.op = "update_state" =>
        /\ DOMAIN Result = DOMAIN Base \cup DOMAIN pc.arg
        /\ \A f \in {"messages", "errors", "logs"} : Appended(f)
        /\ Result.warnings =
              Base.warnings
                 (+) (IF Given("warnings") THEN pc.arg.warnings ELSE EmptyBag)
                 (+) [w \in {<<"new field", k>> : k \in DOMAIN pc.arg \ DOMAIN Base} |-> 1]
        /\ \A f \in DOMAIN Result \ {"messages", "errors", "warnings", "logs"} :
              Result[f] = IF Given(f) THEN pc.arg[f] ELSE Base[f]

\* messages were appended to a state that had one
C21_Witness ==
    /\ pc.op = "update_state"
    /\ Base.messages = <<HumanMessage("m1")>>
    /\ Result.messages = <<HumanMessage("m1"), HumanMessage("m3")>>

\* C20: update_state and merge_states are pure: the state returned is a new
\* one, and every state passed in is afterwards what it was before, the
\* contents of its messages, errors, warnings, logs and agent_errors included.
C20_UpdateAndMergePure ==
    pc.op \in {"update_state", "merge_states"} =>
        /\ pc.cur # pc.base
        /\ View(mem, pc.base) = View(mem0, pc.base)
        /\ View(mem, "state2") = View(mem0, "state2")

\* ------------------------------------------------------------------ supervisor

\* WorkflowStage, in the order of the enum
Stages ==
    <<"initialization", "data_collection", "analysis", "synthesis", "reporting",
      "completed">>

StageIndex(stage) == CHOOSE i \in DOMAIN Stages : Stages[i] = stage

\* config.get('max_iterations', 10)
default_max_iterations == 10

\* the supervisor configuration of the integration test
test_max_iterations == 3

\* most calls of SupervisorAgent.process in one behaviour
MaxCalls == 6

RequiredAgents == <<"market_research", "company_analysis", "stock_analysis">>

Range(q) == {q[i] : i \in DOMAIN q}

\* self.agent_status[a] = v for every a in agents
StatusSet(st, agents, v) ==
    [a \in DOMAIN st \cup agents |-> IF a \in agents THEN v ELSE st[a]]

\* keys of agent_status in insertion order
StatusOrder ==
    <<"market_research", "company_analysis", "stock_analysis", "consumer_analysis",
      "tech_analysis", "chart_generation", "report_generation">>

\* SupervisorAgent.__init__
SupervisorAgent(max_iter) ==
    [current_stage |-> "initialization",
     agent_status |-> << >>,
     iteration_count |-> 0,
     max_iterations |-> max_iter]

\* each handler takes the supervisor S and the heap M (the state is dict
\* "state") and gives both back
_initialize_workflow(S, M) ==
    [sup |-> [S EXCEPT !.agent_status = StatusSet(@, Range(RequiredAgents), "pending"),
                       !.current_stage = "data_collection"],
     mem |-> [M EXCEPT !.d["state"].required_agents = RequiredAgents,
                       !.d["state"].workflow_metadata = "supervisor",
                       !.d["state"].next_agents = RequiredAgents]]

_coordinate_data_collection(S, M) ==
    LET pending_agents ==
            SelectSeq(StatusOrder, LAMBDA a : /\ a \in DOMAIN S.agent_status
                                              /\ S.agent_status[a] = "pending")
    IN IF pending_agents = << >>
       THEN [sup |-> [S EXCEPT !.current_stage = "analysis",
                               !.agent_status =
                                   StatusSet(@, {"consumer_analysis", "tech_analysis"},
                                             "pending")],
             mem |-> SetField(M, "state", "next_agents",
                              <<"consumer_analysis", "tech_analysis">>)]
       ELSE [sup |-> S,
             mem |-> SetField(M, "state", "pending_agents", pending_agents)]

\* a variant of the analysis handler that goes straight to reporting
_coordinate_analysis_to_reporting(S, M) ==
    LET analysis_complete ==
            \A f \in {"market_trends", "consumer_patterns", "company_analysis",
                      "tech_trends", "stock_analysis"} : Truthy(M.d["state"][f])
    IN IF analysis_complete
       THEN [sup |-> [S EXCEPT !.current_stage = "reporting",
                               !.agent_status = StatusSet(@, {"report_generation"}, "pending")],
             mem |-> SetField(M, "state", "next_agents", <<"report_generation">>)]
       ELSE [sup |-> S, mem |-> M]

_coordinate_analysis(S, M) ==
    LET analysis_complete ==
            \A f \in {"market_trends", "consumer_patterns", "company_analysis",
                      "tech_trends", "stock_analysis"} : Truthy(M.d["state"][f])
    IN IF analysis_complete
       THEN [sup |-> [S EXCEPT !.current_stage = "synthesis",
                               !.agent_status = StatusSet(@, {"chart_generation"}, "pending")],
             mem |-> SetField(M, "state", "next_agents", <<"chart_generation">>)]
       ELSE [sup |-> S, mem |-> M]

_coordinate_synthesis(S, M) ==
    IF M.d["state"].charts_generated
    THEN [sup |-> [S EXCEPT !.current_stage = "reporting",
                            !.agent_status = StatusSet(@, {"report_generation"}, "pending")],
          mem |-> SetField(M, "state", "next_agents", <<"report_generation">>)]
    ELSE [sup |-> S, mem |-> M]

_coordinate_reporting(S, M) ==
    IF Truthy(M.d["state"].final_report)
    THEN [sup |-> [S EXCEPT !.current_stage = "completed"],
          mem |-> [M EXCEPT !.d["state"].workflow_complete = TRUE,
                            !.d["state"].completed_at = "now"]]
    ELSE [sup |-> S, mem |-> M]

\* a variant of process that stops at the ceiling without writing state['error']
supervisor_process_silent(S, M) ==
    LET S1 == [S EXCEPT !.iteration_count = @ + 1]
    IN IF S1.iteration_count > S1.max_iterations
       THEN [sup |-> S1, mem |-> M]
       ELSE CASE S1.current_stage = "initialization" -> _initialize_workflow(S1, M)
              [] S1.current_stage = "data_collection" -> _coordinate_data_collection(S1, M)
              [] S1.current_stage = "analysis" -> _coordinate_analysis(S1, M)
              [] S1.current_stage = "synthesis" -> _coordinate_synthesis(S1, M)
              [] S1.current_stage = "reporting" -> _coordinate_reporting(S1, M)
              [] OTHER -> [sup |-> S1, mem |-> M]

\* SupervisorAgent.process(state).  Its save_output calls write files under
\* outputs/ that nothing reads back; they are not part of the state.
supervisor_process(S, M) ==
    LET S1 == [S EXCEPT !.iteration_count = @ + 1]
    IN IF S1.iteration_count > S1.max_iterations
       THEN [sup |-> S1,
             mem |-> SetField(M, "state", "error", "Maximum iterations exceeded")]
       ELSE CASE S1.current_stage = "initialization" -> _initialize_workflow(S1, M)
              [] S1.current_stage = "data_collection" -> _coordinate_data_collection(S1, M)
              [] S1.current_stage = "analysis" -> _coordinate_analysis(S1, M)
              [] S1.current_stage = "synthesis" -> _coordinate_synthesis(S1, M)
              [] S1.current_stage = "reporting" -> _coordinate_reporting(S1, M)
              [] OTHER -> [sup |-> S1, mem |-> M]

\* a supervisor built with the default or the test configuration, and a state
\* fresh from create_initial_state
InitSupervisor ==
    /\ mem = create_initial_state(EmptyMem, "state", << >>)
    /\ mem0 = EmptyMem
    /\ pc = [calls |-> 0]
    /\ outcome = [t \in Tasks |-> "none"]
    /\ received = << >>
    /\ disk = << >>
    /\ sup \in {SupervisorAgent(default_max_iterations), SupervisorAgent(test_max_iterations)}
    /\ state_history = << >>

\* one call of supervisor.process(state)
SupervisorProcess ==
    /\ pc.calls < MaxCalls
    /\ LET r == supervisor_process(sup, mem)
       IN /\ sup' = r.sup
          /\ mem' = r.mem
    /\ pc' = [pc EXCEPT !.calls = @ + 1]
    /\ UNCHANGED <<mem0, outcome, received, disk, state_history>>

\* supervisor.update_agent_status(agent_name, 'completed') for an agent the
\* supervisor has scheduled
UpdateAgentStatus(a) ==
    /\ a \in DOMAIN sup.agent_status
    /\ sup.agent_status[a] = "pending"
    /\ sup' = [sup EXCEPT !.agent_status[a] = "completed"]
    /\ UNCHANGED <<mem, mem0, pc, outcome, received, disk, state_history>>

\* between two calls of the supervisor an agent runs on the state and writes
\* its slots
AgentWrites(t) ==
    /\ outcome[t] = "none"
    /\ mem' = process(mem, "state", t, "ok")
    /\ outcome' = [outcome EXCEPT ![t] = "ok"]
    /\ UNCHANGED <<mem0, pc, received, disk, sup, state_history>>

\* market_research when only _analyze_market_trends failed: market_data is a
\* dict whose 'trends' is None, so market_trends is set to None
MarketResearchWithoutTrends ==
    /\ outcome["market_research"] = "none"
    /\ mem' = SetField(process(mem, "state", "market_research", "ok"),
                       "state", "market_trends", "None")
    /\ outcome' = [outcome EXCEPT !["market_research"] = "ok"]
    /\ UNCHANGED <<mem0, pc, received, disk, sup, state_history>>

NextSupervisor ==
    \/ SupervisorProcess
    \/ \E a \in Tasks : UpdateAgentStatus(a)
    \/ \E t \in Tasks : AgentWrites(t)
    \/ MarketResearchWithoutTrends

SpecSupervisor == InitSupervisor /\ [][NextSupervisor]_vars

\* C10: every call of the supervisor's process adds exactly one to
\* iteration_count, and leaves current_stage where it was or moves it to the
\* stage that immediately follows it; nothing else changes either of them.
C10_OneIterationOneStage ==
    [][/\ pc'.calls = pc.calls + 1 =>
            /\ sup'.iteration_count = sup.iteration_count + 1
            /\ StageIndex(sup'.current_stage) \in
                   {StageIndex(sup.current_stage), StageIndex(sup.current_stage) + 1}
       /\ pc'.calls = pc.calls =>
            /\ sup'.iteration_count = sup.iteration_count
            /\ sup'.current_stage = sup.current_stage]_vars

\* the supervisor has both stayed in a stage and walked through all of them
C10_Witness ==
    /\ sup.current_stage = "completed"
    /\ sup.iteration_count = 6
    /\ pc.calls = 6

\* C11: the iteration ceiling is a circuit breaker that reports: the count of
\* passes is the count of calls, state['error'] holds "Maximum iterations
\* exceeded" exactly when the count has exceeded max_iterations (with
\* max_iterations = 3, from the pass that follows the 3rd one), and from the
\* max_iterations-th pass on no call moves the stage again, whatever the
\* stage guards are.
C11_IterationCeiling ==
    /\ [](/\ sup.iteration_count = pc.calls
          /\ (sup.iteration_count > sup.max_iterations)
                <=> (mem.d["state"].error = "Maximum iterations exceeded")
          /\ mem.d["state"].error \in {"absent", "Maximum iterations exceeded"})
    /\ [][sup.iteration_count >= sup.max_iterations
             => sup'.current_stage = sup.current_stage]_vars

\* max_iterations = 3 and a data-collection guard that never became true: the
\* pass after the 3rd one has put the state in error
C11_Witness ==
    /\ sup.max_iterations = test_max_iterations
    /\ sup.current_stage = "data_collection"
    /\ sup.iteration_count = sup.max_iterations + 1
    /\ mem.d["state"].pending_agents # << >>
    /\ mem.d["state"].error = "Maximum iterations exceeded"

\* C12: a pass of the supervisor in the analysis stage (below the iteration
\* ceiling) moves to synthesis exactly when check_dependencies(state,
\* 'chart_generation') is ready, i.e. when market_data, consumer_patterns,
\* company_analysis, tech_trends and stock_analysis are all populated.
C12_SynthesisIffChartDependencies ==
    [][(/\ pc'.calls = pc.calls + 1
        /\ sup.current_stage = "analysis"
        /\ sup.iteration_count < sup.max_iterations)
          => ((sup'.current_stage = "synthesis")
                 <=> check_dependencies(mem.d["state"], "chart_generation").ready)]_vars

\* C27: after every call of the supervisor's process the state's
\* workflow_stage is the supervisor's current stage and its current_iteration
\* is the supervisor's iteration count, so the state's workflow_stage is
\* 'completed' exactly when the supervisor is in COMPLETED.
C27_StateFollowsSupervisor ==
    pc.calls > 0 =>
        /\ mem.d["state"].workflow_stage = sup.current_stage
        /\ mem.d["state"].current_iteration = sup.iteration_count
        /\ mem.d["state"].workflow_stage = "completed" <=> sup.current_stage = "completed"

\* ------------------------------------------------------------------ checkpoints

\* most save_checkpoint / load_checkpoint calls in one behaviour of SpecCheckpoint
MaxCheckpointOps == 3

\* the states given to save_checkpoint: an initial state with some messages,
\* possibly a result, a completed task and the extra key of the checkpoint test
CheckpointSamples ==
    [messages : {<< >>, <<HumanMessage("m1")>>, <<AIMessage("m2")>>,
                 <<HumanMessage("m1"), AIMessage("m2")>>, <<SystemMessage("m3")>>,
                 <<ToolMessage("m4")>>, <<UserDict("m5")>>},
     market_trends : {"None", "a"},
     completed : {EmptyBag, SetToBag({"market_research"})},
     test_data : {"absent", "test_value"}]

CheckpointState(cfg) ==
    LET M1 == create_initial_state(EmptyMem, "state", cfg.messages)
        d == M1.d["state"]
        rec == [f \in DOMAIN d \cup {"test_data"} |->
                   CASE f = "test_data" -> cfg.test_data
                     [] f = "market_trends" -> cfg.market_trends
                     [] OTHER -> d[f]]
    IN [M1 EXCEPT !.d["state"] = rec, !.l[d.completed_agents] = cfg.completed]

InitCheckpoint ==
    /\ \E cfg \in CheckpointSamples : mem = CheckpointState(cfg)
    /\ mem0 = EmptyMem
    /\ pc = [op |-> "none", n |-> 0, name |-> "none", raised |-> "no"]
    /\ outcome = << >>
    /\ received = << >>
    /\ disk = << >>
    /\ sup = << >>
    /\ state_history = << >>

\* state_manager.save_checkpoint(state, name); mem0 keeps the heap as it was
\* when the call was made
SaveCheckpoint(name) ==
    /\ pc.n < MaxCheckpointOps
    /\ disk' = WriteFile(disk, name, _make_serializable(mem, "state"))
    /\ mem0' = mem
    /\ mem' = save_checkpoint(mem, "state")
    /\ pc' = [op |-> "save_checkpoint", n |-> pc.n + 1, name |-> name, raised |-> "no"]
    /\ UNCHANGED <<outcome, received, sup, state_history>>

\* loaded = state_manager.load_checkpoint(path)
LoadCheckpoint(name) ==
    /\ pc.n < MaxCheckpointOps
    /\ LET res == load_checkpoint(mem, disk, name, "loaded")
       IN /\ mem' = res.mem
          /\ pc' = [op |-> "load_checkpoint", n |-> pc.n + 1, name |-> name,
                    raised |-> res.raised]
    /\ UNCHANGED <<mem0, outcome, received, disk, sup, state_history>>

\* between two checkpoints the run goes on: a chain marks a task completed
TaskCompletes(t) ==
    /\ t \notin Elems(mem, "state", "completed_agents")
    /\ mem' = MarkCompleted(mem, "state", t)
    /\ pc' = [pc EXCEPT !.op = "append"]
    /\ UNCHANGED <<mem0, outcome, received, disk, sup, state_history>>

NextCheckpoint ==
    \/ SaveCheckpoint("test_checkpoint")
    \/ \E name \in {"test_checkpoint", "no_such_file"} : LoadCheckpoint(name)
    \/ TaskCompletes("company_analysis")

SpecCheckpoint == InitCheckpoint /\ [][NextCheckpoint]_vars

\* C14: the state load_checkpoint returns for a file save_checkpoint wrote is
\* the state that was saved, field for field (logs, errors, completed_agents
\* and the result slots included), the messages being rebuilt as messages of
\* the same content.
C14_RoundTrip ==
    (pc.op = "load_checkpoint" /\ pc.raised = "no") =>
        LET saved == View(mem0, "state")
            loaded == View(mem, "loaded")
        IN /\ DOMAIN loaded = DOMAIN saved
           /\ \A f \in DOMAIN saved \ {"messages"} : loaded[f] = saved[f]
           /\ Len(loaded.messages) = Len(saved.messages)
           /\ \A i \in DOMAIN saved.messages :
                 loaded.messages[i].content = saved.messages[i].content

\* C30: every checkpoint save_checkpoint wrote for a state of a run, the state
\* of a run started with an initial message (kept as a {'role', 'content'}
\* dict) included, is loaded without an exception: load_checkpoint raises
\* only FileNotFoundError, and only when the file does not exist.
C30_LoadRaisesOnlyFileNotFound ==
    pc.op = "load_checkpoint" =>
        /\ pc.raised \in {"no", "FileNotFoundError"}
        /\ pc.raised = "FileNotFoundError" <=> pc.name \notin DOMAIN disk

\* ------------------------------------------------------------------ main, resume

\* the checkpoint file left by an earlier run, interrupted after the tasks in
\* done had completed: that run's workflow_id, its results and its one message
PreviousCheckpoint(done) ==
    LET M0 == create_initial_state(EmptyMem, "state", <<HumanMessage("start")>>)
        M1 == SetField(M0, "state", "workflow_id", "wf_0")
        M2 == IF "market_research" \in done
              THEN MarkCompleted(WriteSlots(M1, "state", "market_research"),
                                 "state", "market_research")
              ELSE M1
        M3 == IF "company_analysis" \in done
              THEN MarkCompleted(WriteSlots(M2, "state", "company_analysis"),
                                 "state", "company_analysis")
              ELSE M2
    IN _make_serializable(M3, "state")

InitMain ==
    /\ mem = EmptyMem
    /\ mem0 = EmptyMem
    /\ pc = [main |-> "main", chain1 |-> "idle", chain2 |-> "idle",
             tech |-> "idle", stock |-> "idle"]
    /\ outcome = [t \in Tasks |-> "none"]
    /\ received = << >>
    /\ \E done \in {{"market_research"}, {"market_research", "company_analysis"}} :
          disk = WriteFile(<< >>, "checkpoint", PreviousCheckpoint(done))
    /\ sup = << >>
    /\ state_history = << >>

\* main() up to the call of builder.run: with --resume the checkpoint is loaded
\* into the local initial_state, without it initial_state is None; a failing
\* load is caught by main's except clause and the process exits
Main(resume, path) ==
    /\ pc.main = "main"
    /\ IF resume
       THEN LET res == load_checkpoint(mem, disk, path, "initial_state")
            IN /\ mem' = res.mem
               /\ pc' = [pc EXCEPT !.main = IF res.raised = "no" THEN "new" ELSE "exit"]
       ELSE /\ mem' = mem
            /\ pc' = [pc EXCEPT !.main = "new"]
    /\ UNCHANGED <<mem0, outcome, received, disk, sup, state_history>>

NextMain ==
    \/ \E resume \in BOOLEAN, path \in {"checkpoint", "no_such_file"} : Main(resume, path)
    \/ Next

SpecMain == InitMain /\ [][NextMain]_vars

\* main was started with --resume and the checkpoint was loaded
Resumed == "initial_state" \in DOMAIN mem.d

\* C15: a run started with the resume option runs the graph on the state loaded
\* from the checkpoint: the checkpoint's workflow_id, its completed_agents and
\* its populated result slots are in the state the pipeline executes on.
C15_ResumeRunsFromCheckpoint ==
    (Resumed /\ "state" \in DOMAIN mem.d) =>
        /\ mem.d["state"].workflow_id = disk["checkpoint"].workflow_id
        /\ BagToSet(disk["checkpoint"].completed_agents)
              \subseteq Elems(mem, "state", "completed_agents")
        /\ \A f \in SlotFields :
              ~IsNone(disk["checkpoint"][f]) => mem.d["state"][f] = disk["checkpoint"][f]

\* ------------------------------------------------------------------ dependency checks

\* the states check_dependencies is asked about: an initial state in which the
\* prerequisite fields are None, present but empty ({}), or populated
DependencySamples ==
    [market_trends : {"None", "empty", "v"},
     government_policies : {"None", "empty", "v"},
     company_tech_data : {"None", "empty", "v"},
     market_data : {"None", "empty", "v"},
     consumer_patterns : {"None", "v"},
     company_analysis : {"None", "v"},
     tech_trends : {"None", "v"},
     stock_analysis : {"None", "v"},
     charts_generated : BOOLEAN]

DependencyState(cfg) ==
    LET M1 == create_initial_state(EmptyMem, "state", << >>)
    IN [M1 EXCEPT !.d["state"] =
           [f \in DOMAIN @ |-> IF f \in DOMAIN cfg THEN cfg[f] ELSE @[f]]]

InitDependencies ==
    /\ \E cfg \in DependencySamples : mem = DependencyState(cfg)
    /\ mem0 = EmptyMem
    /\ pc = [op |-> "none", agent |-> "none", ready |-> FALSE, missing |-> << >>]
    /\ outcome = << >>
    /\ received = << >>
    /\ disk = << >>
    /\ sup = << >>
    /\ state_history = << >>

\* can_run, missing = state_manager.check_dependencies(state, agent_name)
CheckDependencies(agent_name) ==
    /\ LET r == check_dependencies(mem.d["state"], agent_name)
       IN pc' = [op |-> "check_dependencies", agent |-> agent_name,
                 ready |-> r.ready, missing |-> r.missing]
    /\ UNCHANGED <<mem, mem0, outcome, received, disk, sup, state_history>>

\* del state[f]: a prerequisite of consumer_analysis is removed from the state
RemoveField(f) ==
    /\ mem.d["state"][f] # "absent"
    /\ mem' = SetField(mem, "state", f, "absent")
    /\ pc' = [op |-> "remove", agent |-> "none", ready |-> FALSE, missing |-> << >>]
    /\ UNCHANGED <<mem0, outcome, received, disk, sup, state_history>>

NextDependencies ==
    \/ \E agent_name \in Tasks : CheckDependencies(agent_name)
    \/ \E f \in {"market_trends", "government_policies"} : RemoveField(f)

SpecDependencies == InitDependencies /\ [][NextDependencies]_vars

\* a prerequisite is unsatisfied: a *_generated flag that is not true, a data
\* field that is None or not in the state
Unsatisfied(dep) ==
    IF dep = "charts_generated"
    THEN mem.d["state"][dep] # TRUE
    ELSE mem.d["state"][dep] \in {"None", "absent"}

\* C16: for every task and every state, check_dependencies returns ready =
\* false with exactly the unsatisfied prerequisites of the task, each once and
\* in the order of the table, when there is one, and ready = true with an empty
\* list when there is none; a task without an entry in the table is ready.
C16_CheckDependenciesExact ==
    pc.op = "check_dependencies" =>
        LET deps == Dependencies(pc.agent)
            unsat == {i \in DOMAIN deps : Unsatisfied(deps[i])}
        IN /\ pc.ready = (unsat = {})
           /\ Len(pc.missing) = Cardinality(unsat)
           /\ {pc.missing[i] : i \in DOMAIN pc.missing} = {deps[i] : i \in unsat}
           /\ \A i, j \in DOMAIN pc.missing :
                 i < j => \E a, b \in unsat :
                             a < b /\ deps[a] = pc.missing[i] /\ deps[b] = pc.missing[j]
           /\ pc.agent \in {"market_research", "company_analysis", "stock_analysis"}
                 => pc.ready

\* chart_generation was checked on a state lacking two of its prerequisites
C16_Witness ==
    /\ pc.op = "check_dependencies"
    /\ pc.agent = "chart_generation"
    /\ ~pc.ready
    /\ pc.missing = <<"market_data", "tech_trends">>

\* C17: a data prerequisite that is present but empty is satisfied: with
\* market_trends = {} and government_policies = {} consumer_analysis is ready,
\* and with government_policies removed or None it is not, the missing list
\* being exactly ['government_policies'].
C17_EmptyIsSatisfied ==
    (/\ pc.op = "check_dependencies"
     /\ pc.agent = "consumer_analysis"
     /\ mem.d["state"].market_trends = "empty") =>
        /\ mem.d["state"].government_policies = "empty"
              => (pc.ready /\ pc.missing = << >>)
        /\ mem.d["state"].government_policies \in {"None", "absent"}
              => (~pc.ready /\ pc.missing = <<"government_policies">>)

\* government_policies was removed from the seeded state and the check repeated
C17_Witness ==
    /\ pc.op = "check_dependencies"
    /\ pc.agent = "consumer_analysis"
    /\ mem.d["state"].market_trends = "empty"
    /\ mem.d["state"].government_policies = "absent"
    /\ ~pc.ready
    /\ pc.missing = <<"government_policies">>

\* ------------------------------------------------------------------ validation

\* validate_state is given any dict, well formed or not.  The four keys it
\* reads are modelled as tagged Python values: a missing key, None, an int, a
\* str or a list of str.
PyAbsent == [tag |-> "absent", int |-> 0, str |-> "", list |-> << >>]

PyNone == [tag |-> "None", int |-> 0, str |-> "", list |-> << >>]

PyInt(n) == [tag |-> "int", int |-> n, str |-> "", list |-> << >>]

PyStr(x) == [tag |-> "str", int |-> 0, str |-> x, list |-> << >>]

PyList(q) == [tag |-> "list", int |-> 0, str |-> "", list |-> q]

\* the limit of the iteration check
iteration_limit == 1000

valid_stages ==
    {"initialization", "data_collection", "analysis", "synthesis", "reporting",
     "completed"}

\* the four keys of a state built by create_initial_state, as validate_state
\* reads them
PyDict(d) ==
    [workflow_id |-> PyStr(d.workflow_id),
     current_iteration |-> PyInt(d.current_iteration),
     workflow_stage |-> PyStr(d.workflow_stage),
     next_agents |-> PyList(d.next_agents)]

\* StateManager.validate_state(state).  state.get('current_iteration', 0) >
\* 1000 raises TypeError when the value is None or a str; otherwise the issues
\* are collected in the order of the checks and (len(issues) == 0, issues) is
\* returned.
validate_state(state) ==
    LET required_fields == <<"workflow_id", "current_iteration", "workflow_stage">>
        Lacking(f) == state[f].tag \in {"absent", "None"}
        required == [i \in DOMAIN SelectSeq(required_fields, Lacking) |->
                        <<"required field missing or None",
                          SelectSeq(required_fields, Lacking)[i]>>]
        it == state.current_iteration
        iteration == IF it.tag \in {"absent", "int"}
                        /\ (IF it.tag = "absent" THEN 0 ELSE it.int) > iteration_limit
                     THEN <<<<"iteration count exceeds maximum limit", "">>>> ELSE << >>
        st == state.workflow_stage
        stage == IF st.tag = "str" /\ st.str \in valid_stages
                 THEN << >> ELSE <<<<"invalid workflow stage", st.str>>>>
        na == state.next_agents
        next_agents == IF na.tag = "list" /\ na.list # << >>
                          /\ Cardinality({na.list[i] : i \in DOMAIN na.list}) # Len(na.list)
                       THEN <<<<"duplicate agents in next_agents", "">>>> ELSE << >>
        issues == required \o iteration \o stage \o next_agents
    IN IF it.tag \in {"None", "str"}
       THEN [raised |-> "TypeError", valid |-> FALSE, issues |-> << >>]
       ELSE [raised |-> "no", valid |-> Len(issues) = 0, issues |-> issues]

\* the dicts given to validate_state: the keys it reads, each missing, None or
\* holding a value
ValidationSamples ==
    [workflow_id : {PyAbsent, PyNone, PyStr("wf_1")},
     current_iteration : {PyAbsent, PyNone, PyInt(0), PyInt(iteration_limit),
                          PyInt(iteration_limit + 1)},
     workflow_stage : {PyAbsent, PyNone, PyStr("analysis"), PyStr("completed"),
                       PyStr("invalid_stage")},
     next_agents : {PyAbsent, PyNone, PyList(<< >>), PyList(<<"tech_analysis">>),
                    PyList(<<"consumer_analysis", "tech_analysis">>),
                    PyList(<<"tech_analysis", "tech_analysis">>)}]

\* received holds the dict validate_state is called on
InitValidate ==
    /\ mem = create_initial_state(EmptyMem, "state", << >>)
    /\ mem0 = EmptyMem
    /\ pc = [op |-> "none", raised |-> "no", valid |-> FALSE, issues |-> << >>]
    /\ outcome = << >>
    /\ received \in ValidationSamples \cup {PyDict(mem.d["state"])}
    /\ disk = << >>
    /\ sup = << >>
    /\ state_history = << >>

\* is_valid, issues = state_manager.validate_state(state)
ValidateState ==
    /\ pc.op = "none"
    /\ LET r == validate_state(received)
       IN pc' = [op |-> "validate_state", raised |-> r.raised, valid |-> r.valid,
                 issues |-> r.issues]
    /\ UNCHANGED <<mem, mem0, outcome, received, disk, sup, state_history>>

NextValidate == ValidateState

SpecValidate == InitValidate /\ [][NextValidate]_vars

\* the state validate_state was called on is well formed: the three required
\* keys present and not None, the iteration at most 1000, the stage one of the
\* six, no agent twice in next_agents
WellFormed ==
    /\ \A f \in {"workflow_id", "current_iteration", "workflow_stage"} :
          received[f].tag \notin {"absent", "None"}
    /\ received.current_iteration.tag = "int"
    /\ received.current_iteration.int <= 1000
    /\ received.workflow_stage.tag = "str"
    /\ received.workflow_stage.str \in
          {"initialization", "data_collection", "analysis", "synthesis",
           "reporting", "completed"}
    /\ \A i, j \in DOMAIN received.next_agents.list :
          received.next_agents.list[i] = received.next_agents.list[j] => i = j

\* C18: validate_state returns (true, []) exactly for the well-formed states
\* and (false, a non-empty list of issues) for every other state; for the state
\* create_initial_state builds it returns (true, []).
C18_ValidateVerdict ==
    pc.op = "validate_state" =>
        /\ pc.raised = "no"
        /\ pc.valid <=> WellFormed
        /\ pc.valid <=> (pc.issues = << >>)

\* C19: validate_state never raises (and does not touch its argument): for
\* every dict, malformed ones included, the call returns a report.
C19_ValidateNeverRaises ==
    pc.op = "validate_state" => pc.raised = "no"

\* ------------------------------------------------------------------ rollback

MaxUpdates == 3

MaxSteps == 4

\* StateManager.rollback(state, steps) with history H and the current state in
\* dict s.  With too short a history a warning is appended to the state and
\* None returned.  Otherwise state_history[-(steps + 1)] is read, which is
\* position Len(H) - steps counted from 1 and raises IndexError when there is
\* no such position; the dict found gets a line appended to its logs and is
\* returned.  pos is the position of the returned dict, 0 for None.
rollback(M, H, s, steps) ==
    IF Len(H) < steps
    THEN [raised |-> "no", pos |-> 0,
          mem |-> ListAppend(M, s, "warnings", <<"cannot rollback", "insufficient history">>)]
    ELSE IF Len(H) - steps < 1
    THEN [raised |-> "IndexError", pos |-> 0, mem |-> M]
    ELSE LET previous_state == H[Len(H) - steps]
         IN [raised |-> "no", pos |-> Len(H) - steps,
             mem |-> [M EXCEPT !.l[previous_state.logs] = @ (+) SetToBag({"rolled back"})]]

\* the updates the history is built from
RollbackPartials ==
    { [current_iteration |-> 1],
      [workflow_stage |-> "analysis"],
      [market_trends |-> "c"] }

InitRollback ==
    /\ mem = create_initial_state(EmptyMem, "state", << >>)
    /\ mem0 = EmptyMem
    /\ pc = [op |-> "none", n |-> 0, cur |-> "state", steps |-> 0,
             raised |-> "no", pos |-> 0]
    /\ outcome = << >>
    /\ received = << >>
    /\ disk = << >>
    /\ sup = << >>
    /\ state_history = << >>

\* state = state_manager.update_state(state, updates)
HistoryUpdate(updates) ==
    /\ pc.op # "rollback"
    /\ pc.n < MaxUpdates
    /\ mem' = update_state(mem, pc.cur, updates, ResultName(pc.n + 1))
    /\ state_history' = _add_to_history(state_history, mem'.d[ResultName(pc.n + 1)])
    /\ pc' = [pc EXCEPT !.op = "update_state", !.n = @ + 1, !.cur = ResultName(pc.n + 1)]
    /\ UNCHANGED <<mem0, outcome, received, disk, sup>>

\* state_manager.rollback(state, steps)
Rollback(steps) ==
    /\ pc.op # "rollback"
    /\ LET r == rollback(mem, state_history, pc.cur, steps)
       IN /\ mem' = r.mem
          /\ pc' = [pc EXCEPT !.op = "rollback", !.steps = steps,
                              !.raised = r.raised, !.pos = r.pos]
    /\ mem0' = mem
    /\ UNCHANGED <<outcome, received, disk, sup, state_history>>

NextRollback ==
    \/ \E u \in RollbackPartials : HistoryUpdate(u)
    \/ \E steps \in 1..MaxSteps : Rollback(steps)

SpecRollback == InitRollback /\ [][NextRollback]_vars

\* C26: rollback never raises: when the history does not hold a state steps
\* updates before the latest one (its length is at most steps) it returns
\* None and adds a warning to the state, otherwise it returns the state
\* recorded steps updates before the latest one.
C26_RollbackNeverRaises ==
    pc.op = "rollback" =>
        /\ pc.raised = "no"
        /\ IF Len(state_history) <= pc.steps
           THEN /\ pc.pos = 0
                /\ ListOf(mem, pc.cur, "warnings")
                      = ListOf(mem0, pc.cur, "warnings")
                           (+) SetToBag({<<"cannot rollback", "insufficient history">>})
           ELSE pc.pos = Len(state_history) - pc.steps

====
